---------------------------- MODULE Spec2Model ----------------------------
(***************************************************************************)
(* A model of the GeoHash trie index (package GeoHash, tire.go, types.go). *)
(*                                                                         *)
(* Go strings are sequences of byte values (ASCII codes); Go's 0-based     *)
(* index k of a string s is s[k+1] here.  A Go run-time panic (an index    *)
(* out of range) is the outcome "panic" of the call that raises it.        *)
(* Coordinates are float64 in the source; here a coordinate is an integer  *)
(* number of 2^-17 degrees, a unit in which every midpoint that the 20     *)
(* halvings of [-180,180] and [-90,90] compute is an integer, so that the  *)
(* comparisons val < mid are the source's, exactly.                        *)
(***************************************************************************)
EXTENDS Integers, Sequences, FiniteSets, TLC

\* ------------------------------------------------------------------ bounds

\* Number of goroutines calling the service concurrently.
NumProcs == 2

\* ------------------------------------------------------- program constants

\* children [32]*geoTireNode
Fanout == 32
\* getBinaryBits: bits.Len() >= 20
BitsLen == 20
\* GeoHash: for i := 0; i < 40; i++
StreamLen == 40
\* GeoHash: if i%5 != 0 { continue }
GroupLen == 5

\* ---------------------------------------------------------------- strings

\* The byte of a one-character string literal of the source.
Chr0 == 48
Chr1 == 49
Chr9 == 57
ChrB == 66
ChrH == 72
ChrJ == 74
ChrK == 75
ChrM == 77
ChrN == 78
ChrP == 80
ChrZ == 90

Bytes == 0..255

\* var Base32 = []byte{'0', ..., '9', 'B', ..., 'H', 'J', 'K', 'M', 'N', 'P', ..., 'Z'}
Base32 ==
    << 48, 49, 50, 51, 52, 53, 54, 55, 56, 57,
       66, 67, 68, 69, 70, 71, 72, 74, 75, 77, 78, 80, 81,
       82, 83, 84, 85, 86, 87, 88, 89, 90 >>

\* byte arithmetic wraps at 256
ByteOf(n) == n % 256

\* func (t *TireTreeGeoService) base32ToIndex(bits byte) int
base32ToIndex(bits) ==
    IF bits >= Chr0 /\ bits <= Chr9 THEN ByteOf(bits - Chr0)
    ELSE IF bits >= ChrB /\ bits <= ChrH THEN ByteOf(bits - ChrB + 26)
    ELSE IF bits >= ChrJ /\ bits <= ChrK THEN ByteOf(bits - ChrJ + 33)
    ELSE IF bits >= ChrM /\ bits <= ChrN THEN ByteOf(bits - ChrJ + 35)
    ELSE IF bits >= ChrP /\ bits <= ChrZ THEN ByteOf(bits - ChrJ + 37)
    ELSE -1

\* ------------------------------------------------------------------ codec

\* One degree, in the model's coordinate unit (2^-17 degree).
Scale == 2^17
Deg(d) == d * Scale

\* func getBinaryBits(bits, val, start, end) string: the recursion appends one
\* bit per call to `bits` and returns when 20 bits are written.
RECURSIVE getBinaryBits(_, _, _, _)
getBinaryBits(bits, val, start, end) ==
    LET mid == (start + end) \div 2
        b == IF val < mid THEN Chr0 ELSE Chr1
        nstart == IF val < mid THEN start ELSE mid
        nend == IF val < mid THEN mid ELSE end
        nbits == Append(bits, b)
    IN  IF Len(nbits) >= BitsLen THEN nbits
        ELSE getBinaryBits(nbits, val, nstart, nend)

\* strconv.ParseInt(s, 2, 64): the value of a non-empty string of '0'/'1'
\* bytes, an error for anything else.
RECURSIVE BinValue(_)
BinValue(s) ==
    IF s = << >> THEN 0
    ELSE 2 * BinValue(SubSeq(s, 1, Len(s) - 1)) + (s[Len(s)] - Chr0)

ParseInt(s) ==
    IF s = << >> \/ \E k \in 1..Len(s) : s[k] \notin {Chr0, Chr1}
    THEN [err |-> TRUE, val |-> 0]
    ELSE [err |-> FALSE, val |-> BinValue(s)]

\* Go's index expression s[k] on a string: in range, or a run-time panic.
InRange(s, k) == 0 <= k /\ k < Len(s)

\* The three outcomes of a call to GeoHash.
HashOk(code) == [kind |-> "ok", code |-> code]
HashErr == [kind |-> "err", code |-> << >>]
HashPanic == [kind |-> "panic", code |-> << >>]

\* The body of GeoHash's loop from iteration i on: fiveBitsTmp and geoHash are
\* the two builders.  (i-1)>>1 is an arithmetic shift: the floor of (i-1)/2.
RECURSIVE GeoHashLoop(_, _, _, _, _)
GeoHashLoop(i, fiveBitsTmp, geoHash, lngBits, latBits) ==
    IF i >= StreamLen THEN HashOk(geoHash)
    ELSE
      LET k == (i - 1) \div 2
          src == IF i % 1 = 1 THEN lngBits
                 ELSE IF i % 2 = 0 THEN latBits
                 ELSE << >>
          writes == (i % 1 = 1) \/ (i % 2 = 0)
      IN  IF writes /\ ~InRange(src, k) THEN HashPanic
          ELSE
            LET five == IF writes THEN Append(fiveBitsTmp, src[k + 1])
                        ELSE fiveBitsTmp
            IN  IF i % GroupLen # 0
                THEN GeoHashLoop(i + 1, five, geoHash, lngBits, latBits)
                ELSE
                  LET p == ParseInt(five)
                  IN  IF p.err THEN HashErr
                      ELSE IF ~(p.val + 1 \in DOMAIN Base32) THEN HashPanic
                      ELSE GeoHashLoop(i + 1, << >>,
                                       Append(geoHash, Base32[p.val + 1]),
                                       lngBits, latBits)

\* func (t *TireTreeGeoService) GeoHash(points Points) (string, error)
GeoHash(points) ==
    LET lngBits == getBinaryBits(<< >>, points.Longitude, Deg(-180), Deg(180))
        latBits == getBinaryBits(<< >>, points.Latitude, Deg(-90), Deg(90))
    IN  GeoHashLoop(0, << >>, << >>, lngBits, latBits)

\* ------------------------------------------------------------------- trie

\* Node 0 is the nil pointer; the heap is the sequence of the nodes allocated
\* so far, a node's id its position.  A node that is unlinked from its parent
\* stays in the heap, as it stays in memory while a pointer to it is held.
Nil == 0
Slots == 0..(Fanout - 1)

\* &geoTireNode{}: the zero value of
\* type geoTireNode struct { children; passCnt; end; GeoEntry{Points, Hash} }
\* (a nil map reads as the empty map).
NewNode ==
    [children |-> [s \in Slots |-> Nil], passCnt |-> 0, end |-> FALSE,
     Points |-> [h \in {} |-> << >>], Hash |-> << >>]

\* func (g *GeoEntry) add(p Points, hash string)
EntryAdd(node, p, hash) ==
    [node EXCEPT !.Points =
        [h \in DOMAIN node.Points \cup {hash} |->
            IF h = hash
            THEN Append(IF hash \in DOMAIN node.Points
                        THEN node.Points[hash] ELSE << >>, p)
            ELSE node.Points[h]]]

\* func (g *GeoEntry) get(hash string) []Points
EntryGet(node, hash) ==
    IF hash \in DOMAIN node.Points THEN node.Points[hash] ELSE << >>

\* func (t *TireTreeGeoService) get(hash string) (*geoTireNode, error), from
\* iteration i with the walk at node `move`.  children[index] with an index
\* outside 0..31 other than the -1 the condition tests first is a panic.
RECURSIVE getFrom(_, _, _, _)
getFrom(h, move, hash, i) ==
    IF i >= Len(hash) THEN [kind |-> "ok", node |-> move]
    ELSE
      LET index == base32ToIndex(hash[i + 1])
      IN  IF index = -1 THEN [kind |-> "err", node |-> Nil]
          ELSE IF index \notin Slots THEN [kind |-> "panic", node |-> Nil]
          ELSE IF h[move].children[index] = Nil
               THEN [kind |-> "err", node |-> Nil]
          ELSE getFrom(h, h[move].children[index], hash, i + 1)

Root == 1
get(h, hash) == getFrom(h, Root, hash, 0)

\* func (g *geoTireNode) dfs() ([]*GeoEntry, error): the pointers to the
\* entries, a pointer being the id of the node that embeds the entry.
RECURSIVE dfs(_, _)
RECURSIVE dfsChildren(_, _, _)
dfsChildren(h, g, i) ==
    IF i >= Fanout THEN << >>
    ELSE IF h[g].children[i] = Nil THEN dfsChildren(h, g, i + 1)
    ELSE dfs(h, h[g].children[i]) \o dfsChildren(h, g, i + 1)

dfs(h, g) ==
    (IF h[g].end THEN << g >> ELSE << >>) \o dfsChildren(h, g, 0)

\* What a call hands back: the outcome (a return or a panic), the bool or the
\* values returned, and the error.
Ret(op, arg, kind, ok, err, val) ==
    [op |-> op, arg |-> arg, kind |-> kind, ok |-> ok, err |-> err, val |-> val]
NoRet == Ret("none", << >>, "return", FALSE, "nil", << >>)

\* GeoDel, lines 85-98: the walk that decrements, from iteration i at `move`.
RECURSIVE delWalk(_, _, _, _)
delWalk(h, move, hash, i) ==
    IF i >= Len(hash)
    THEN [kind |-> "return", heap |-> [h EXCEPT ![move].end = FALSE]]
    ELSE
      LET index == base32ToIndex(hash[i + 1])
      IN  IF index \notin Slots \/ h[move].children[index] = Nil
          THEN [kind |-> "panic", heap |-> h]
          ELSE
            LET child == h[move].children[index]
                h1 == [h EXCEPT ![child].passCnt = @ - 1]
            IN  IF h1[child].passCnt = 0
                THEN [kind |-> "return",
                      heap |-> [h1 EXCEPT ![move].children[index] = Nil]]
                ELSE delWalk(h1, child, hash, i + 1)

\* func (t *TireTreeGeoService) GeoDel(hash string) (bool, error), between
\* Lock and the deferred Unlock.
GeoDelLocked(h, hash) ==
    LET target == get(h, hash)
    IN  IF target.kind = "panic"
        THEN [heap |-> h, kind |-> "panic", ok |-> FALSE, err |-> "nil"]
        ELSE IF target.kind = "err"
        THEN [heap |-> h, kind |-> "return", ok |-> FALSE,
              err |-> "ErrInvalidHash"]
        ELSE IF ~h[target.node].end
        THEN [heap |-> h, kind |-> "return", ok |-> FALSE,
              err |-> "ErrInvalidHash"]
        ELSE LET w == delWalk(h, Root, hash, 0)
             IN  [heap |-> w.heap, kind |-> w.kind, ok |-> w.kind = "return",
                  err |-> "nil"]

\* GeoAdd, lines 141-152: the walk that creates and increments, from
\* iteration i at `move`; what it wrote before a panic stays written.
RECURSIVE addWalk(_, _, _, _, _)
addWalk(h, move, points, geoHash, i) ==
    IF i >= Len(geoHash)
    THEN [kind |-> "return",
          heap |-> [h EXCEPT ![move] =
                       EntryAdd([h[move] EXCEPT !.end = TRUE], points, geoHash)]]
    ELSE
      LET index == base32ToIndex(geoHash[i + 1])
      IN  IF index \notin Slots THEN [kind |-> "panic", heap |-> h]
          ELSE
            LET fresh == h[move].children[index] = Nil
                child == IF fresh THEN Len(h) + 1 ELSE h[move].children[index]
                h1 == IF fresh
                      THEN Append([h EXCEPT ![move].children[index] = child],
                                  NewNode)
                      ELSE h
                h2 == [h1 EXCEPT ![child].passCnt = @ + 1]
            IN  addWalk(h2, child, points, geoHash, i + 1)

\* func (t *TireTreeGeoService) GeoAdd(points Points) (bool, error), between
\* Lock and the deferred Unlock; err is what get returned.
GeoAddLocked(h, points, geoHash) ==
    LET target == get(h, geoHash)
        err == IF target.kind = "err" THEN "ErrInvalidHash" ELSE "nil"
    IN  IF target.kind = "panic"
        THEN [heap |-> h, kind |-> "panic", ok |-> FALSE, err |-> "nil"]
        ELSE IF target.kind = "ok" /\ h[target.node].end
        THEN [heap |-> [h EXCEPT ![target.node] = EntryAdd(@, points, geoHash)],
              kind |-> "return", ok |-> TRUE, err |-> err]
        ELSE LET w == addWalk(h, Root, points, geoHash, 0)
             IN  [heap |-> w.heap, kind |-> w.kind, ok |-> w.kind = "return",
                  err |-> IF w.kind = "return" THEN err ELSE "nil"]

\* func (t *TireTreeGeoService) GeoPosition(hash string) ([]Points, error),
\* between RLock and the deferred RUnlock.
GeoPositionLocked(h, hash) ==
    LET targets == get(h, hash)
    IN  IF targets.kind = "panic"
        THEN [kind |-> "panic", err |-> "nil", val |-> << >>]
        ELSE IF targets.kind = "err"
        THEN [kind |-> "return", err |-> "ErrInvalidHash", val |-> << >>]
        ELSE IF ~h[targets.node].end
        THEN [kind |-> "return", err |-> "nil", val |-> << >>]
        ELSE [kind |-> "return", err |-> "nil",
              val |-> EntryGet(h[targets.node], hash)]

\* func (t *TireTreeGeoService) FindByPrefix(prefix string) ([]*GeoEntry, error),
\* between RLock and the deferred RUnlock.
FindByPrefixLocked(h, prefix) ==
    LET target == get(h, prefix)
    IN  IF target.kind = "panic"
        THEN [kind |-> "panic", err |-> "nil", val |-> << >>]
        ELSE IF target.kind = "err"
        THEN [kind |-> "return", err |-> "ErrInvalidHash", val |-> << >>]
        ELSE [kind |-> "return", err |-> "nil", val |-> dfs(h, target.node)]

\* ------------------------------------------------------------------ inputs

Procs == 1..NumProcs

Pt(lng, lat) == [Longitude |-> lng, Latitude |-> lat]

\* Point: longitude in [-180,180], latitude in [-90,90].
ValidPoint(points) ==
    /\ Deg(-180) <= points.Longitude /\ points.Longitude <= Deg(180)
    /\ Deg(-90) <= points.Latitude /\ points.Latitude <= Deg(90)

\* The points the callers pass: four in range, and two out of range
\* (longitude 200, latitude -100), which the source does not tell apart.
InputPoints ==
    { Pt(Deg(0), Deg(0)), Pt(Deg(-122), Deg(37)), Pt(Deg(180), Deg(90)),
      Pt(Deg(-180), Deg(-90)), Pt(Deg(200), Deg(0)), Pt(Deg(0), Deg(-100)) }

\* The code and prefix strings the callers pass: "", "0", "B", "H", "a", "0H".
InputHashes ==
    { << >>, << 48 >>, << 66 >>, << 72 >>, << 97 >>, << 48, 72 >> }

\* ------------------------------------------------------------------- state

VARIABLES
    heap,   \* the nodes allocated; heap[Root] is t.root
    mux,    \* t.mux: whether a writer holds it, and how many readers do
    pc,     \* per goroutine: where its call stands
    op,     \* per goroutine: the call in progress
    ret     \* per goroutine: what its last call handed back

vars == << heap, mux, pc, op, ret >>

NoOp == [name |-> "none", arg |-> << >>, hash |-> << >>]

\* func NewTireTreeGeoService() GeoService
Init ==
    /\ heap = << NewNode >>
    /\ mux = [writer |-> FALSE, readers |-> 0]
    /\ pc = [p \in Procs |-> "idle"]
    /\ op = [p \in Procs |-> NoOp]
    /\ ret = [p \in Procs |-> NoRet]

\* GeoHash takes no lock: the whole call is one step.
DoGeoHash(p) ==
    \E points \in InputPoints :
      /\ pc[p] = "idle"
      /\ LET r == GeoHash(points)
         IN  ret' = [ret EXCEPT ![p] =
                Ret("GeoHash", points,
                    IF r.kind = "panic" THEN "panic" ELSE "return",
                    r.kind = "ok",
                    IF r.kind = "err" THEN "ParseError" ELSE "nil",
                    r.code)]
      /\ UNCHANGED << heap, mux, pc, op >>

\* GeoAdd, lines 128-131: the hash is computed before the lock is asked for.
GeoAdd(p) ==
    \E points \in InputPoints :
      /\ pc[p] = "idle"
      /\ LET r == GeoHash(points)
         IN  IF r.kind = "ok"
             THEN /\ pc' = [pc EXCEPT ![p] = "Lock"]
                  /\ op' = [op EXCEPT ![p] =
                        [name |-> "GeoAdd", arg |-> points, hash |-> r.code]]
                  /\ ret' = [ret EXCEPT ![p] = NoRet]
             ELSE /\ ret' = [ret EXCEPT ![p] =
                        Ret("GeoAdd", points,
                            IF r.kind = "panic" THEN "panic" ELSE "return",
                            FALSE,
                            IF r.kind = "err" THEN "ParseError" ELSE "nil",
                            << >>)]
                  /\ UNCHANGED << pc, op >>
      /\ UNCHANGED << heap, mux >>

\* GeoDel, line 74: the call arrives at t.mux.Lock().
GeoDel(p) ==
    \E hash \in InputHashes :
      /\ pc[p] = "idle"
      /\ pc' = [pc EXCEPT ![p] = "Lock"]
      /\ op' = [op EXCEPT ![p] = [name |-> "GeoDel", arg |-> hash, hash |-> hash]]
      /\ ret' = [ret EXCEPT ![p] = NoRet]
      /\ UNCHANGED << heap, mux >>

\* GeoPosition, line 102: the call arrives at t.mux.RLock().
GeoPosition(p) ==
    \E hash \in InputHashes :
      /\ pc[p] = "idle"
      /\ pc' = [pc EXCEPT ![p] = "RLock"]
      /\ op' = [op EXCEPT ![p] =
            [name |-> "GeoPosition", arg |-> hash, hash |-> hash]]
      /\ ret' = [ret EXCEPT ![p] = NoRet]
      /\ UNCHANGED << heap, mux >>

\* FindByPrefix, line 185: the call arrives at t.mux.RLock().
FindByPrefix(p) ==
    \E prefix \in InputHashes :
      /\ pc[p] = "idle"
      /\ pc' = [pc EXCEPT ![p] = "RLock"]
      /\ op' = [op EXCEPT ![p] =
            [name |-> "FindByPrefix", arg |-> prefix, hash |-> prefix]]
      /\ ret' = [ret EXCEPT ![p] = NoRet]
      /\ UNCHANGED << heap, mux >>

\* A Lock that, like RLock, waits for writers only.
CanLockIgnoringReaders(m) == ~m.writer

\* sync.RWMutex: Lock waits until no writer and no reader holds the mutex.
CanLock(m) == ~m.writer /\ m.readers = 0
\* sync.RWMutex: RLock waits until no writer holds the mutex.
CanRLock(m) == ~m.writer

\* t.mux.Lock()
Lock(p) ==
    /\ pc[p] = "Lock"
    /\ CanLock(mux)
    /\ mux' = [mux EXCEPT !.writer = TRUE]
    /\ pc' = [pc EXCEPT ![p] = "locked"]
    /\ UNCHANGED << heap, op, ret >>

\* t.mux.RLock()
RLock(p) ==
    /\ pc[p] = "RLock"
    /\ CanRLock(mux)
    /\ mux' = [mux EXCEPT !.readers = @ + 1]
    /\ pc' = [pc EXCEPT ![p] = "rlocked"]
    /\ UNCHANGED << heap, op, ret >>

\* The body of GeoAdd or GeoDel under the lock, and the deferred Unlock, which
\* runs on a return and on a panic alike.
WriterRun(p) ==
    /\ pc[p] = "locked"
    /\ LET r == IF op[p].name = "GeoAdd"
                THEN GeoAddLocked(heap, op[p].arg, op[p].hash)
                ELSE GeoDelLocked(heap, op[p].hash)
       IN  /\ heap' = r.heap
           /\ ret' = [ret EXCEPT ![p] =
                 Ret(op[p].name, op[p].arg, r.kind, r.ok, r.err, << >>)]
    /\ mux' = [mux EXCEPT !.writer = FALSE]
    /\ pc' = [pc EXCEPT ![p] = "idle"]
    /\ op' = [op EXCEPT ![p] = NoOp]

\* The body of GeoPosition or FindByPrefix under the read lock, and the
\* deferred RUnlock.
ReaderRun(p) ==
    /\ pc[p] = "rlocked"
    /\ LET r == IF op[p].name = "GeoPosition"
                THEN GeoPositionLocked(heap, op[p].hash)
                ELSE FindByPrefixLocked(heap, op[p].hash)
       IN  ret' = [ret EXCEPT ![p] =
              Ret(op[p].name, op[p].arg, r.kind, r.kind = "return", r.err, r.val)]
    /\ mux' = [mux EXCEPT !.readers = @ - 1]
    /\ pc' = [pc EXCEPT ![p] = "idle"]
    /\ op' = [op EXCEPT ![p] = NoOp]
    /\ UNCHANGED heap

Next ==
    \E p \in Procs :
      \/ DoGeoHash(p)
      \/ GeoAdd(p)
      \/ GeoDel(p)
      \/ GeoPosition(p)
      \/ FindByPrefix(p)
      \/ Lock(p)
      \/ RLock(p)
      \/ WriterRun(p)
      \/ ReaderRun(p)

Spec == Init /\ [][Next]_vars

\* ----------------------------------------------------------- the claims

SeqContains(s, e) == \E k \in 1..Len(s) : s[k] = e
SeqRange(s) == { s[k] : k \in 1..Len(s) }
IsPrefix(a, b) == Len(a) <= Len(b) /\ SubSeq(b, 1, Len(a)) = a
Front(s) == SubSeq(s, 1, Len(s) - 1)

\* The nodes linked under node g, g included.
RECURSIVE Subtree(_, _)
Subtree(h, g) ==
    {g} \cup UNION { Subtree(h, h[g].children[s]) :
                        s \in { t \in Slots : h[g].children[t] # Nil } }

\* The terminal nodes linked under the root, and the codes they hold.
LiveNodes(h) == { n \in Subtree(h, Root) : h[n].end }
LiveCodes(h) == UNION { DOMAIN h[n].Points : n \in LiveNodes(h) }

\* What GeoPosition and FindByPrefix return in a state.
Position(h, hash) == GeoPositionLocked(h, hash).val
Found(h, prefix) == FindByPrefixLocked(h, prefix).val

\* The step in which goroutine p's call of `name` ends, by a return or a panic.
CallOver(p, name) == ret'[p].op = name /\ ret'[p] # ret[p]

\* C1: the round trip of a valid point p: GeoAdd(p) succeeds, and when it has,
\* GeoPosition(GeoHash(p)) returns a sequence that contains p.
C1_RoundTrip ==
    [][\A p \in Procs :
         (CallOver(p, "GeoAdd") /\ ValidPoint(ret'[p].arg)) =>
           LET c == GeoHash(ret'[p].arg)
           IN  /\ ret'[p].kind = "return" /\ ret'[p].ok
               /\ c.kind = "ok"
               /\ SeqContains(Position(heap', c.code), ret'[p].arg)]_vars

\* C2: in every state and for every prefix, FindByPrefix returns exactly the
\* entries of the live codes that begin with the prefix, each once.
C2_PrefixExact ==
    \A prefix \in InputHashes :
      LET r == FindByPrefixLocked(heap, prefix)
      IN  /\ r.kind = "return"
          /\ SeqRange(r.val) =
               { n \in LiveNodes(heap) :
                   \E c \in DOMAIN heap[n].Points : IsPrefix(prefix, c) }
          /\ Len(r.val) = Cardinality(SeqRange(r.val))

\* Two codes that share all but their last symbol.
Siblings(c1, c2) ==
    /\ c1 # c2 /\ Len(c1) = Len(c2) /\ Len(c1) >= 1
    /\ Front(c1) = Front(c2)

\* C3: GeoAdd of valid points makes their codes live, and with two live codes
\* c1 and c2 that differ in their last symbol only, a successful GeoDel(c1)
\* leaves GeoPosition(c2) unchanged and c2's entry under
\* FindByPrefix(sharedPrefix).
C3_DeleteFrame ==
    [][\A p \in Procs :
         /\ (CallOver(p, "GeoAdd") /\ ValidPoint(ret'[p].arg)) =>
              LET c == GeoHash(ret'[p].arg)
              IN  c.kind = "ok" /\ c.code \in LiveCodes(heap')
         /\ (CallOver(p, "GeoDel") /\ ret'[p].ok) =>
              \A c2 \in LiveCodes(heap) :
                Siblings(ret'[p].arg, c2) =>
                  /\ Position(heap', c2) = Position(heap, c2)
                  /\ \E n \in SeqRange(Found(heap', Front(c2))) :
                        c2 \in DOMAIN heap'[n].Points]_vars

\* C4: GeoAdd of a valid point puts its code's branch in the trie, and when
\* the code is the only one under its subtree, one successful GeoDel(c) makes
\* GeoPosition(c) empty and takes c's entry out of FindByPrefix of every
\* prefix of c.
C4_DeleteUnshared ==
    [][\A p \in Procs :
         /\ (CallOver(p, "GeoAdd") /\ ValidPoint(ret'[p].arg)) =>
              LET c == GeoHash(ret'[p].arg)
              IN  /\ c.kind = "ok"
                  /\ get(heap', c.code).kind = "ok"
         /\ (CallOver(p, "GeoDel") /\ ret'[p].ok) =>
              LET c == ret'[p].arg
              IN  (\A d \in LiveCodes(heap) \ {c} :
                      d = << >> \/ c = << >> \/ d[1] # c[1]) =>
                    /\ Position(heap', c) = << >>
                    /\ \A k \in 0..Len(c) :
                         \A n \in SeqRange(Found(heap', SubSeq(c, 1, k))) :
                           c \notin DOMAIN heap'[n].Points]_vars

\* C5: every GeoAdd of a valid point appends the point to the sequence
\* GeoPosition returns for its code: a second point of the same code comes
\* after the first, which is kept.
C5_Accumulate ==
    [][\A p \in Procs :
         (CallOver(p, "GeoAdd") /\ ValidPoint(ret'[p].arg)) =>
           LET c == GeoHash(ret'[p].arg)
           IN  /\ c.kind = "ok"
               /\ Position(heap', c.code) =
                    Append(Position(heap, c.code), ret'[p].arg)]_vars

\* C6: under every interleaving each GeoAdd succeeds, its code is retrievable
\* afterwards, and it loses no point of any other code.
C6_ConcurrentAdd ==
    [][\A p \in Procs :
         (CallOver(p, "GeoAdd") /\ ValidPoint(ret'[p].arg)) =>
           LET c == GeoHash(ret'[p].arg)
           IN  /\ ret'[p].kind = "return" /\ ret'[p].ok
               /\ c.kind = "ok" /\ Position(heap', c.code) # << >>
               /\ \A d \in LiveCodes(heap) \ {c.code} :
                    Position(heap', d) = Position(heap, d)]_vars

\* C7: while a GeoAdd or GeoDel holds the lock no other call is in the trie;
\* readers overlap with readers only.
C7_Exclusive ==
    /\ \A p, q \in Procs :
         (p # q /\ pc[p] = "locked") => pc[q] \notin {"locked", "rlocked"}
    /\ mux.writer = (\E p \in Procs : pc[p] = "locked")
    /\ mux.readers = Cardinality({ p \in Procs : pc[p] = "rlocked" })

\* A writer is in the trie while another call waits for the lock.
C7_Witness ==
    \E p, q \in Procs :
      /\ p # q /\ pc[p] = "locked" /\ op[p].name = "GeoDel"
      /\ pc[q] \in {"Lock", "RLock"}

\* C8: the base32ToIndex a call walks the trie with is the inverse of the
\* Base32 table, and fails (-1) on every byte that is not in the table.
C8_Bijection ==
    \A p \in Procs :
      pc[p] \in {"locked", "rlocked"} =>
        /\ \A i \in 0..(Fanout - 1) : base32ToIndex(Base32[i + 1]) = i
        /\ \A b \in Bytes \ SeqRange(Base32) : base32ToIndex(b) = -1

\* The 40-bit stream of the contract: lng[k/2] at even k, lat[(k-1)/2] at odd k
\* (0-based), and its code: symbol j is Base32 of bits 5j..5j+4, first bit
\* most significant.
Interleaved(lngBits, latBits) ==
    [k \in 1..StreamLen |->
        IF (k - 1) % 2 = 0 THEN lngBits[((k - 1) \div 2) + 1]
        ELSE latBits[((k - 2) \div 2) + 1]]
CodeOfStream(stream) ==
    [j \in 1..(StreamLen \div GroupLen) |->
        Base32[BinValue(SubSeq(stream, GroupLen * (j - 1) + 1, GroupLen * j)) + 1]]

\* C9: the code GeoHash returns for a point is the code of the interleaved
\* stream of the point's longitude and latitude bits.
C9_Interleave ==
    \A p \in Procs :
      (ret[p].op = "GeoHash" /\ ValidPoint(ret[p].arg)) =>
        LET lngBits == getBinaryBits(<< >>, ret[p].arg.Longitude,
                                     Deg(-180), Deg(180))
            latBits == getBinaryBits(<< >>, ret[p].arg.Latitude,
                                     Deg(-90), Deg(90))
        IN  /\ ret[p].kind = "return"
            /\ ret[p].val = CodeOfStream(Interleaved(lngBits, latBits))

\* C10: GeoHash of a valid point returns, without failing, 8 symbols of the
\* alphabet, and the same point yields the same code.
C10_Shape ==
    \A p \in Procs :
      (ret[p].op = "GeoHash" /\ ValidPoint(ret[p].arg)) =>
        /\ ret[p].kind = "return" /\ ret[p].err = "nil"
        /\ Len(ret[p].val) = 8
        /\ \A k \in 1..Len(ret[p].val) : ret[p].val[k] \in SeqRange(Base32)
        /\ \A q \in Procs :
             (ret[q].op = "GeoHash" /\ ret[q].arg = ret[p].arg) =>
               ret[q].val = ret[p].val

\* C11: a GeoAdd of a valid point returns true with no error (nil), whether
\* its code is new to the index or already live.
C11_AddResult ==
    [][\A p \in Procs :
         (CallOver(p, "GeoAdd") /\ ValidPoint(ret'[p].arg)) =>
           /\ ret'[p].kind = "return"
           /\ ret'[p].ok
           /\ ret'[p].err = "nil"]_vars

\* C12: GeoDel of a code that is not live (no path, a path that does not end
\* at a live entry, a code already deleted, the empty code) returns
\* (false, ErrInvalidHash) and leaves every node as it was.
C12_DelError ==
    [][\A p \in Procs :
         (CallOver(p, "GeoDel") /\ ret'[p].arg \notin LiveCodes(heap)) =>
           /\ ret'[p].kind = "return"
           /\ ~ret'[p].ok
           /\ ret'[p].err = "ErrInvalidHash"
           /\ heap' = heap]_vars

\* C13: for every string and in every state GeoPosition, GeoDel and
\* FindByPrefix return a result/error pair: no call panics, and no walk
\* indexes a child array outside slots 0..31.
C13_NoPanic ==
    /\ \A p \in Procs :
         ret[p].op \in {"GeoPosition", "GeoDel", "FindByPrefix"} =>
           ret[p].kind = "return"
    /\ \A hash \in InputHashes :
         /\ get(heap, hash).kind # "panic"
         /\ \A k \in 1..Len(hash) :
              base32ToIndex(hash[k]) \in Slots \cup {-1}

\* C14: GeoHash and GeoAdd of a point out of range fail with an OutOfRange
\* error, return no code and insert nothing.
C14_OutOfRange ==
    [][\A p \in Procs :
         ((CallOver(p, "GeoHash") \/ CallOver(p, "GeoAdd"))
            /\ ~ValidPoint(ret'[p].arg)) =>
           /\ ret'[p].kind = "return"
           /\ ~ret'[p].ok
           /\ ret'[p].err = "OutOfRange"
           /\ ret'[p].val = << >>
           /\ heap' = heap]_vars

\* The calls that take the lock.
LockingCalls == {"GeoAdd", "GeoDel", "GeoPosition", "FindByPrefix"}

\* C18: every GeoAdd, GeoDel, GeoPosition and FindByPrefix call ends from
\* under the lock it acquired, by a return, and has released the lock when it
\* has ended.
C18_Completion ==
    [][\A p \in Procs : \A name \in LockingCalls :
         CallOver(p, name) =>
           /\ pc[p] \in {"locked", "rlocked"}
           /\ ret'[p].kind = "return"
           /\ pc'[p] = "idle"
           /\ mux' = IF pc[p] = "locked"
                     THEN [mux EXCEPT !.writer = FALSE]
                     ELSE [mux EXCEPT !.readers = @ - 1]]_vars

\* C20: a GeoAdd(p) of a point whose code is not live, one that a GeoDel
\* removed included, makes GeoPosition of the code return exactly [p]: no
\* point stored before the deletion comes back.
C20_NoResurrection ==
    [][\A p \in Procs :
         (CallOver(p, "GeoAdd") /\ ValidPoint(ret'[p].arg)) =>
           LET c == GeoHash(ret'[p].arg)
           IN  /\ c.kind = "ok"
               /\ c.code \notin LiveCodes(heap) =>
                    Position(heap', c.code) = << ret'[p].arg >>]_vars

=============================================================================
